---- MODULE Spec2Model ----
(***************************************************************************)
(* Model of the asynchronous Deep IP Scan transform of the Relazio plugin   *)
(* example: the scanIp handler, the background task processDeepScan, the    *)
(* in-memory job map, and the signed webhook delivery (sendWebhook,         *)
(* signWebhook, verifyWebhookSignature).                                    *)
(*                                                                         *)
(* JavaScript runs every handler and every promise continuation to its     *)
(* next pending await without interleaving, so one action of the model is  *)
(* one such run: from the event that resumes the task (a timer, an HTTP    *)
(* response) to the next await whose promise is still pending.             *)
(***************************************************************************)
EXTENDS Integers, Sequences, FiniteSets, TLC

\* ---------------------------------------------------------------- bounds
\* Number of submissions the model accepts.
MaxJobs == 2
MaxLookups == 3

\* ------------------------------------------------------------ input sets
\* Strings that are signed, compared or used as keys are sequences of
\* characters. process.env.WEBHOOK_SECRET unset or empty: both are falsy in
\* `!secret`.
NoSecret == <<>>
Secrets == {<<"s", "1">>, <<"s", "2">>}
EntityTypes == {"ip", "domain"}
\* The organizations that submit: one, and two for the runs about tenants.
Organizations == {"org-1"}
Tenants == {"org-1", "org-2"}
CallbackUrls == {"http://a/cb"}
\* The `undefined` of an omitted property.
Undefined == "undefined"
\* config.includePortScan / config.includeReputation as submitted.
\* Here the options are omitted, so both optional scans run.
Configs == {[includePortScan |-> Undefined, includeReputation |-> Undefined]}
\* Values a rejected work step raises: an Error with a message, or a value
\* that is not an Error. The steps are awaited calls (performReverseDNS and
\* findAssociatedDomains raise a TypeError on an entity value that is not a
\* string; the lookups they stand for may reject); whatever they raise is
\* caught by the catch block of processDeepScan.
Thrown == {[isError |-> TRUE, message |-> "timeout"],
           [isError |-> FALSE, message |-> Undefined]}
\* Outcomes of the fetch of sendWebhook: a 2xx response, a non-2xx response,
\* a transport error (fetch rejects).
FetchOutcomes == {"ok", "non2xx", "transport"}

VARIABLES
    envSecret,  \* process.env.WEBHOOK_SECRET
    jobs,       \* the Map jobs: jobId -> [status, progress]
    task,       \* per jobId: the processDeepScan invocation (position, locals,
                \* and wrote: the records its last step wrote to jobs, in order)
    posts,      \* per jobId: the HTTP POSTs its task made, in order
    marks,      \* per jobId: number of jobs.set calls with a terminal status
    response,   \* the last HTTP response the server sent
    hmacLog,    \* the calls of signWebhook and verifyWebhookSignature made by
                \* a caller of hmac.ts, with what they returned
    handler,    \* per job of the SDK plugin: the run of the Deep IP Scan handler
    lookups     \* the requests of POST /lookup-ip in order of arrival: the
                \* position of lookupIp and the responses it has sent

vars == <<envSecret, jobs, task, posts, marks, response, hmacLog, handler,
          lookups>>

JobIds == DOMAIN jobs

\* The job id as the string that travels in requests and responses.
IdString(jobId) == ToString(jobId)

\* ------------------------------------------------------------------ hmac
\* The size of a SHA-256 digest, in bytes.
DigestBytes == 32

\* The character U+0000.
NUL == "NUL"

\* The key block crypto.createHmac('sha256', secret) derives from a secret
\* no longer than the block of SHA-256, 64 bytes: the secret followed by NUL
\* bytes up to the block size, written here without its trailing NULs. (A
\* longer secret is hashed first; the model has none.)
RECURSIVE hmacKey(_)
hmacKey(secret) ==
    IF secret # <<>> /\ secret[Len(secret)] = NUL
    THEN hmacKey(SubSeq(secret, 1, Len(secret) - 1))
    ELSE secret

\* A digest that leaves the key out: the plain hash of the payload.
hmacDigest_unkeyed(payload, secret) == <<"hmac-sha256", hmacKey(<<>>), payload>>

\* A digest taken before hmac.update(payload): that of the empty message.
hmacDigest_noUpdate(payload, secret) == <<"hmac-sha256", hmacKey(secret), <<>>>>

\* createHmac('sha256', secret).update(payload).digest(): the digest is a
\* function of the key block and the message, taken as collision free.
hmacDigest(payload, secret) == <<"hmac-sha256", hmacKey(secret), payload>>

\* The characters of a string literal, as a Buffer holds them.
Chars(literal) == [i \in 1..Len(literal) |-> [char |-> literal[i]]]

\* digest('hex') as a Buffer holds it: two lowercase hexadecimal digits for
\* each byte of the digest, each digit determined by the digest and its place.
digestHex(digest) ==
    [i \in 1..(2 * DigestBytes) |->
        [digest |-> digest,
         byte |-> (i + 1) \div 2,
         nibble |-> IF i % 2 = 1 THEN "high" ELSE "low"]]

\* The hexadecimal digest alone, without the algorithm tag.
signWebhook_hexOnly(payload, secret) ==
    [prefix |-> <<>>, hex |-> hmacDigest(payload, secret)]

\* A signer that keeps one Hmac object for all its calls: the digest covers
\* what earlier calls fed to it as well.
signWebhook_sharedHmac(payload, secret) ==
    [prefix |-> <<"s", "h", "a", "2", "5", "6", "=">>,
     hex |-> hmacDigest(<<hmacLog.first # <<>>, payload>>, secret)]

\* `sha256=${hmac.digest('hex')}`: the template string as its two parts.
signWebhook(payload, secret) ==
    [prefix |-> <<"s", "h", "a", "2", "5", "6", "=">>,
     hex |-> hmacDigest(payload, secret)]

\* A value that is not a string, such as the undefined of a missing header:
\* Buffer.from raises a TypeError for it.
NotAString == [typeof |-> "undefined"]

isString(value) == "typeof" \notin DOMAIN value

\* Buffer.from(string): the bytes of a signature made by signWebhook, or of
\* a string given by its characters.
BufferFrom(string) ==
    IF "hex" \in DOMAIN string
    THEN Chars(string.prefix) \o digestHex(string.hex)
    ELSE string.chars

\* The index of the first place where two buffers of one length differ, or
\* their length when they are equal.
firstDifference(a, b) ==
    IF a = b
    THEN Len(a)
    ELSE CHOOSE i \in 1..Len(a) :
             a[i] # b[i] /\ \A k \in 1..(i - 1) : a[k] = b[k]

\* A comparison that stops at the first differing byte, as === on strings
\* may.
timingSafeEqual_earlyExit(a, b) ==
    IF Len(a) # Len(b)
    THEN [raised |-> TRUE, equal |-> FALSE, compared |-> 0]
    ELSE [raised |-> FALSE, equal |-> a = b, compared |-> firstDifference(a, b)]

\* crypto.timingSafeEqual(a, b): raises a RangeError for buffers of different
\* lengths; otherwise looks at every byte pair, whatever their values.
timingSafeEqual(a, b) ==
    IF Len(a) # Len(b)
    THEN [raised |-> TRUE, equal |-> FALSE, compared |-> 0]
    ELSE [raised |-> FALSE, equal |-> a = b, compared |-> Len(a)]

\* A run of verifyWebhookSignature for a candidate that is a string: whether
\* it raised, the value it returned, the steps it took and the number of byte
\* pairs it compared.
verifyBuffers(expectedBuffer, actualBuffer) ==
    IF Len(expectedBuffer) # Len(actualBuffer)
    THEN [raised |-> FALSE, value |-> FALSE,
          trace |-> <<"Buffer.from", "Buffer.from", "length">>,
          compared |-> 0]
    ELSE LET compare == timingSafeEqual(expectedBuffer, actualBuffer)
         IN  [raised |-> FALSE, value |-> compare.equal,
              trace |-> <<"Buffer.from", "Buffer.from", "length",
                          "timingSafeEqual">>,
              compared |-> compare.compared]

\* verifyWebhookSignature expecting the hexadecimal digest without the tag.
verifyWebhookSignature_hexOnly(payload, signature, secret) ==
    LET expectedBuffer == BufferFrom(signWebhook_hexOnly(payload, secret))
    IN  IF ~isString(signature)
        THEN [raised |-> FALSE, value |-> FALSE,
              trace |-> <<"Buffer.from", "Buffer.from", "catch">>, compared |-> 0]
        ELSE verifyBuffers(expectedBuffer, BufferFrom(signature))

\* verifyWebhookSignature without its try and catch.
verifyWebhookSignature_uncaught(payload, signature, secret) ==
    LET expectedBuffer == BufferFrom(signWebhook(payload, secret))
    IN  IF ~isString(signature)
        THEN [raised |-> TRUE, value |-> FALSE,
              trace |-> <<"Buffer.from", "Buffer.from">>, compared |-> 0]
        ELSE verifyBuffers(expectedBuffer, BufferFrom(signature))

\* verifyWebhookSignature(payload, signature, secret), payload and secret
\* being strings: the run of the call. Whatever Buffer.from or
\* timingSafeEqual raises is caught and false is returned.
verifyWebhookSignature(payload, signature, secret) ==
    LET expectedBuffer == BufferFrom(signWebhook(payload, secret))
    IN  IF ~isString(signature)
        THEN [raised |-> FALSE, value |-> FALSE,
              trace |-> <<"Buffer.from", "Buffer.from", "catch">>, compared |-> 0]
        ELSE verifyBuffers(expectedBuffer, BufferFrom(signature))

\* --------------------------------------------------------------- webhook
\* JSON.stringify of a WebhookPayload: the defined properties in insertion
\* order, undefined ones left out.
\* An optional property is <<>> when undefined and <<v>> when it is v.
JSONstringify(payload) ==
    <<<<"jobId", payload.jobId>>, <<"status", payload.status>>>>
    \o (IF payload.result # <<>> THEN <<<<"result", payload.result[1]>>>> ELSE <<>>)
    \o (IF payload.error # <<>> THEN <<<<"error", payload.error[1]>>>> ELSE <<>>)

\* What a receiver reads back from a body: whether it has property key, and
\* the value of the property.
JSONhas(body, key) == \E i \in 1..Len(body) : body[i][1] = key

JSONfield(body, key) == body[CHOOSE i \in 1..Len(body) : body[i][1] = key][2]

\* sendWebhook signing a second serialization of the payload, with the
\* properties in another order, instead of the body it sends.
sendWebhook_reserialized(callbackUrl, payload, secret) ==
    LET body == JSONstringify(payload)
        signature == signWebhook(<<body[2], body[1]>> \o SubSeq(body, 3, Len(body)),
                                 secret)
    IN  [url |-> callbackUrl, body |-> body, signature |-> signature]

\* The request sendWebhook hands to fetch.
\* sendWebhook posting to an address kept in a variable of the module, which
\* the latest submission has set.
sendWebhook_sharedUrl(callbackUrl, payload, secret) ==
    LET body == JSONstringify(payload)
        signature == signWebhook(body, secret)
        latest == CHOOSE j \in DOMAIN task : \A k \in DOMAIN task : k <= j
    IN  [url |-> task[latest].callbackUrl, body |-> body,
         signature |-> signature]

sendWebhook(callbackUrl, payload, secret) ==
    LET body == JSONstringify(payload)
        signature == signWebhook(body, secret)
    IN  [url |-> callbackUrl, body |-> body, signature |-> signature]

\* sendSuccessWebhook with the status of the failure payload.
sendSuccessWebhook_failedStatus(callbackUrl, jobId, result, secret) ==
    sendWebhook(callbackUrl,
                [jobId |-> jobId, status |-> "failed", result |-> <<result>>,
                 error |-> <<>>],
                secret)

sendSuccessWebhook(callbackUrl, jobId, result, secret) ==
    sendWebhook(callbackUrl,
                [jobId |-> jobId, status |-> "completed", result |-> <<result>>,
                 error |-> <<>>],
                secret)

\* sendFailureWebhook without the error property.
sendFailureWebhook_noError(callbackUrl, jobId, error, secret) ==
    sendWebhook(callbackUrl,
                [jobId |-> jobId, status |-> "failed", result |-> <<>>,
                 error |-> <<>>],
                secret)

sendFailureWebhook(callbackUrl, jobId, error, secret) ==
    sendWebhook(callbackUrl,
                [jobId |-> jobId, status |-> "failed", result |-> <<>>,
                 error |-> <<error>>],
                secret)

\* sendWebhook raising only when fetch rejects: a non-2xx response is taken
\* as delivered.
sendWebhookThrows_transportOnly(outcome) == outcome = "transport"

\* Whether sendWebhook raises to its caller: it throws when response.ok is
\* false and rethrows what fetch rejected with.
sendWebhookThrows(outcome) == outcome # "ok"

\* The error sendWebhook raises for a fetch outcome that is not a 2xx.
fetchError(outcome) ==
    IF outcome = "non2xx"
    THEN [isError |-> TRUE, message |-> "Webhook failed: 500"]
    ELSE [isError |-> TRUE, message |-> "fetch failed"]

\* --------------------------------------------------------- processDeepScan
\* The check of the secret left out: an absent secret is used as it is.
secretMissing_never(secret) == FALSE

\* `!secret`
secretMissing(secret) == secret = NoSecret

\* The error object without the instanceof test: the message property of
\* whatever was raised.
scanError_anyMessage(error) ==
    [code |-> "SCAN_ERROR", message |-> error.message]

\* The error object of the failure webhook.
scanError(error) ==
    [code |-> "SCAN_ERROR",
     message |-> IF error.isError THEN error.message ELSE "Unknown error"]

\* `if (config.includeX)`: an omitted option counts as false.
stepEnabled_truthy(flag) == flag = "true"

\* `config.includeX !== false`
stepEnabled(flag) == flag # "false"

\* The TransformResult: the domains and the note; the note has a section
\* per scan that ran.
buildResult(config) ==
    [domains |-> 3,
     portScan |-> stepEnabled(config.includePortScan),
     reputation |-> stepEnabled(config.includeReputation)]

\* A map whose entries all share the record that is written.
jobsSet_shared(map, jobId, record) ==
    [k \in DOMAIN map \cup {jobId} |-> record]

\* A map that forgets its other entries when one is written.
jobsSet_evict(map, jobId, record) ==
    [k \in {jobId} |-> record]

\* jobs.set(jobId, record)
jobsSet(map, jobId, record) ==
    [k \in DOMAIN map \cup {jobId} |-> IF k = jobId THEN record ELSE map[k]]

\* The jobs.set calls of one step, in the order the step makes them.
RECURSIVE jobsSetEach(_, _, _)
jobsSetEach(map, jobId, records) ==
    IF records = <<>>
    THEN map
    ELSE jobsSetEach(jobsSet(map, jobId, Head(records)), jobId, Tail(records))

\* A checkpoint that counts the remaining work down instead of up.
processing_countdown(p) == [status |-> "processing", progress |-> 100 - p]

processing(p) == [status |-> "processing", progress |-> p]
\* The last record of the work left at processing: completed is not yet
\* written when the success webhook goes out.
completedRecord_notYet == processing(100)

completedRecord == [status |-> "completed", progress |-> 100]

\* A failure that keeps a progress value of the work done.
failedRecord_halfway == [status |-> "failed", progress |-> 50]

failedRecord == [status |-> "failed", progress |-> 0]

\* `entity.type !== 'ip'` rejects the submission.
validEntity_any(type) == TRUE

validEntity(type) == type = "ip"

\* The records processDeepScan has written when scanIp answers, with the
\* failure of a missing secret recorded before the answer.
acceptRecords_failsAtOnce(secret) ==
    IF secretMissing(secret)
    THEN <<processing(0), failedRecord>>
    ELSE <<processing(0), processing(10)>>

\* The records written before scanIp answers: the one scanIp stores, and the
\* first checkpoint of processDeepScan unless it threw for a missing secret.
acceptRecords(secret) ==
    IF secretMissing(secret)
    THEN <<processing(0)>>
    ELSE <<processing(0), processing(10)>>

\* ------------------------------------------------------------------ state
\* The run of a call that is not one of verifyWebhookSignature.
NoRun == [raised |-> FALSE, value |-> FALSE, trace |-> <<>>, compared |-> 0]

\* No call of hmac.ts has been made from outside sendWebhook: first is the
\* first call of signWebhook, held the latest one (the signature at hand),
\* last the latest call of either function and the function called before it.
NoCalls ==
    [first |-> <<>>,
     held |-> [payload |-> <<>>, secret |-> <<>>, signature |-> NotAString],
     last |-> [fn |-> "none", after |-> "none", payload |-> <<>>,
               secret |-> <<>>, signature |-> NotAString, run |-> NoRun]]

Init ==
    /\ envSecret \in Secrets \cup {NoSecret}
    /\ jobs = <<>>
    /\ task = <<>>
    /\ posts = <<>>
    /\ marks = <<>>
    /\ response = [code |-> 0, jobId |-> "none"]
    /\ hmacLog = NoCalls
    /\ handler = <<>>
    /\ lookups = <<>>

\* What posts remembers of a fetch outcome: "ok" for a 2xx, else "failed".
settled(outcome) == IF outcome = "ok" THEN "ok" ELSE "failed"

\* The POSTs of a job once the response of its pending POST has arrived.
Responded(jobId, outcome) ==
    [posts[jobId] EXCEPT ![Len(posts[jobId])].response = settled(outcome)]

\* fetch(callbackUrl, request): the POST goes out after the POSTs in sent;
\* its response is pending.
Fetch(jobId, sent, request) ==
    posts' = [posts EXCEPT ![jobId] = Append(sent,
                 [url |-> request.url, body |-> request.body,
                  signature |-> request.signature, response |-> "pending"])]

\* The catch block of processDeepScan, entered with the caught error: the job
\* is recorded failed and the failure webhook is sent.
CatchBlock(jobId, error, work) ==
    /\ jobs' = jobsSetEach(jobs, jobId, <<failedRecord>>)
    /\ marks' = [marks EXCEPT ![jobId] = @ + 1]
    /\ task' = [task EXCEPT ![jobId].pc = "awaitFailure",
                            ![jobId].work = work,
                            ![jobId].caught = <<error>>,
                            ![jobId].wrote = <<failedRecord>>]
    /\ UNCHANGED <<lookups, hmacLog, handler, envSecret, response>>

\* A work step returned: its progress checkpoint is recorded and the task
\* sleeps before the next step.
Checkpoint(jobId, progress, next) ==
    /\ jobs' = jobsSetEach(jobs, jobId, <<processing(progress)>>)
    /\ task' = [task EXCEPT ![jobId].pc = next,
                            ![jobId].wrote = <<processing(progress)>>]
    /\ UNCHANGED <<lookups, hmacLog, handler, envSecret, posts, marks, response>>

\* A work step raised: the catch block runs and sends the failure webhook.
Raised(jobId, error) ==
    /\ CatchBlock(jobId, error, "raised")
    /\ Fetch(jobId, posts[jobId],
             sendFailureWebhook(task[jobId].callbackUrl, jobId,
                                scanError(error), task[jobId].secret))

\* `job-${Date.now()}-${Math.random().toString(36).substr(2, 9)}`: now is
\* the clock reading and random the base-36 digits of the random number after
\* "0."; substr keeps at most the first nine of them.
generateJobId(now, random) ==
    <<"job", now, SubSeq(random, 1, IF Len(random) < 9 THEN Len(random) ELSE 9)>>

\* POST /scan-ip, with the jobId its template string evaluates to. A
\* submission that is not an ip is answered with an error. An accepted one is
\* stored under jobId, and processDeepScan runs to its first await: it reads
\* the secret and either rejects or records progress 10 and sleeps. Of two
\* tasks started under one jobId the model follows the later one.
\* organizationId is the organization that sent the request; scanIp reads
\* nothing that identifies it.
ScanIpJob(jobId, organizationId, type, callbackUrl, config) ==
    \/ /\ ~validEntity(type)
       /\ response' = [code |-> 500, jobId |-> "error"]
       /\ UNCHANGED <<lookups, hmacLog, handler, envSecret, jobs, task, posts, marks>>
    \/ /\ validEntity(type)
       /\ Cardinality(JobIds) < MaxJobs
       /\ LET secret == envSecret
              records == acceptRecords(secret)
          IN  /\ jobs' = jobsSetEach(jobs, jobId, records)
              /\ task' = (jobId :> [pc |-> IF secretMissing(secret)
                                          THEN "rejected" ELSE "sleep1",
                                   secret |-> secret,
                                   organizationId |-> organizationId,
                                   type |-> type,
                                   callbackUrl |-> callbackUrl,
                                   config |-> config,
                                   work |-> IF secretMissing(secret)
                                            THEN "notrun" ELSE "running",
                                   caught |-> <<>>,
                                   wrote |-> records]) @@ task
              /\ posts' = (jobId :> <<>>) @@ posts
              /\ marks' = (jobId :> 0) @@ marks
              /\ response' = [code |-> 200, jobId |-> IdString(jobId)]
       /\ UNCHANGED <<lookups, hmacLog, handler, envSecret>>

\* POST /scan-ip where every generated jobId is new: the jobs are numbered in
\* the order of their acceptance.
ScanIp(organizationId, type, callbackUrl, config) ==
    ScanIpJob(Cardinality(JobIds) + 1, organizationId, type, callbackUrl, config)

\* POST /scan-ip at clock reading now, with Math.random() returning random.
\* The clock does not run backwards.
ScanIpAt(now, random, type, callbackUrl, config) ==
    /\ \A jobId \in JobIds : jobId[2] <= now
    /\ ScanIpJob(generateJobId(now, random), "org-1", type, callbackUrl, config)

\* Step 1: the sleep ends and performReverseDNS returns or raises.
ReverseDns(jobId) ==
    /\ task[jobId].pc = "sleep1"
    /\ \/ Checkpoint(jobId, 30, "sleep2")
       \/ \E e \in Thrown : Raised(jobId, e)

\* Step 2: performPortScan, when enabled, returns or raises.
PortScan(jobId) ==
    /\ task[jobId].pc = "sleep2"
    /\ \/ Checkpoint(jobId, 60, "sleep3")
       \/ /\ stepEnabled(task[jobId].config.includePortScan)
          /\ \E e \in Thrown : Raised(jobId, e)

\* Step 3: checkReputation, when enabled, returns or raises.
Reputation(jobId) ==
    /\ task[jobId].pc = "sleep3"
    /\ \/ Checkpoint(jobId, 80, "sleep4")
       \/ /\ stepEnabled(task[jobId].config.includeReputation)
          /\ \E e \in Thrown : Raised(jobId, e)

\* Step 4: findAssociatedDomains returns or raises. When it returns, progress
\* 90 is recorded, the result is built, the job is recorded completed and the
\* success webhook is sent, all before the next await.
AssociatedDomains(jobId) ==
    /\ task[jobId].pc = "sleep4"
    /\ \/ /\ jobs' = jobsSetEach(jobs, jobId,
                                  <<processing(90), completedRecord>>)
          /\ marks' = [marks EXCEPT ![jobId] = @ + 1]
          /\ task' = [task EXCEPT ![jobId].pc = "awaitSuccess",
                                  ![jobId].work = "ok",
                                  ![jobId].wrote =
                                      <<processing(90), completedRecord>>]
          /\ Fetch(jobId, posts[jobId],
                   sendSuccessWebhook(task[jobId].callbackUrl, jobId,
                                      buildResult(task[jobId].config),
                                      task[jobId].secret))
          /\ UNCHANGED <<lookups, hmacLog, handler, envSecret, response>>
       \/ \E e \in Thrown : Raised(jobId, e)

\* The fetch of the success webhook settles. A 2xx ends the task; anything
\* else makes sendWebhook raise inside the try block, so the catch block runs.
SuccessResponse(jobId, outcome) ==
    /\ task[jobId].pc = "awaitSuccess"
    /\ \/ /\ ~sendWebhookThrows(outcome)
          /\ posts' = [posts EXCEPT ![jobId] = Responded(jobId, outcome)]
          /\ task' = [task EXCEPT ![jobId].pc = "done", ![jobId].wrote = <<>>]
          /\ UNCHANGED <<lookups, hmacLog, handler, envSecret, jobs, marks, response>>
       \/ /\ sendWebhookThrows(outcome)
          /\ CatchBlock(jobId, fetchError(outcome), task[jobId].work)
          /\ Fetch(jobId, Responded(jobId, outcome),
                   sendFailureWebhook(task[jobId].callbackUrl, jobId,
                                      scanError(fetchError(outcome)),
                                      task[jobId].secret))

\* The fetch of the failure webhook settles. A 2xx ends the task; anything
\* else makes sendWebhook raise out of the catch block: the promise of
\* processDeepScan rejects.
FailureResponse(jobId, outcome) ==
    /\ task[jobId].pc = "awaitFailure"
    /\ posts' = [posts EXCEPT ![jobId] = Responded(jobId, outcome)]
    /\ task' = [task EXCEPT ![jobId].pc =
                    IF sendWebhookThrows(outcome) THEN "rejected" ELSE "done",
                            ![jobId].wrote = <<>>]
    /\ UNCHANGED <<lookups, hmacLog, handler, envSecret, jobs, marks, response>>

\* A .catch handler that only logs the error.
OuterCatch_logsOnly(jobId) ==
    /\ task[jobId].pc = "rejected"
    /\ task' = [task EXCEPT ![jobId].pc = "done", ![jobId].wrote = <<>>]
    /\ UNCHANGED <<lookups, hmacLog, handler, envSecret, jobs, posts, marks, response>>

\* A .catch handler that sends the failure webhook once more.
OuterCatch_resends(jobId) ==
    /\ task[jobId].pc = "rejected"
    /\ jobs' = jobsSetEach(jobs, jobId, <<failedRecord>>)
    /\ marks' = [marks EXCEPT ![jobId] = @ + 1]
    /\ task' = [task EXCEPT ![jobId].pc = "done",
                            ![jobId].wrote = <<failedRecord>>]
    /\ Fetch(jobId, posts[jobId],
             sendFailureWebhook(task[jobId].callbackUrl, jobId,
                                scanError(fetchError("transport")),
                                task[jobId].secret))
    /\ UNCHANGED <<lookups, hmacLog, handler, envSecret, response>>

\* The .catch handler scanIp attached to the promise of processDeepScan.
OuterCatch(jobId) ==
    /\ task[jobId].pc = "rejected"
    /\ jobs' = jobsSetEach(jobs, jobId, <<failedRecord>>)
    /\ marks' = [marks EXCEPT ![jobId] = @ + 1]
    /\ task' = [task EXCEPT ![jobId].pc = "done",
                            ![jobId].wrote = <<failedRecord>>]
    /\ UNCHANGED <<lookups, hmacLog, handler, envSecret, posts, response>>

\* The secret on file is replaced by a newly issued one.
IssueSecret(secret) ==
    /\ secret # envSecret
    /\ envSecret' = secret
    /\ UNCHANGED <<lookups, hmacLog, handler, jobs, task, posts, marks, response>>

\* The secret on file is removed.
RevokeSecret ==
    /\ envSecret # NoSecret
    /\ envSecret' = NoSecret
    /\ UNCHANGED <<lookups, hmacLog, handler, jobs, task, posts, marks, response>>

\* Job ids a status query may name: 0 is never assigned.
QueryIds == 0..MaxJobs

\* A status query that answers Not Found for a job that has finished.
GetJobStatus_dropsFinished(jobId) ==
    /\ response' = IF jobId \in JobIds /\ jobs[jobId].status = "processing"
                   THEN [code |-> 200, jobId |-> IdString(jobId),
                         job |-> jobs[jobId]]
                   ELSE [code |-> 404, jobId |-> IdString(jobId),
                         error |-> "Job not found"]
    /\ UNCHANGED <<lookups, hmacLog, handler, envSecret, jobs, task, posts, marks>>

\* GET /jobs/:jobId: the record of the job, or 404 when the map has none.
GetJobStatus(jobId) ==
    /\ response' = IF jobId \in JobIds
                   THEN [code |-> 200, jobId |-> IdString(jobId),
                         job |-> jobs[jobId]]
                   ELSE [code |-> 404, jobId |-> IdString(jobId),
                         error |-> "Job not found"]
    /\ UNCHANGED <<lookups, hmacLog, handler, envSecret, jobs, task, posts, marks>>

Next ==
    \/ \E org \in Organizations, type \in EntityTypes, url \in CallbackUrls,
             config \in Configs :
          ScanIp(org, type, url, config)
    \/ \E jobId \in JobIds : ReverseDns(jobId)
    \/ \E jobId \in JobIds : PortScan(jobId)
    \/ \E jobId \in JobIds : Reputation(jobId)
    \/ \E jobId \in JobIds : AssociatedDomains(jobId)
    \/ \E jobId \in JobIds, outcome \in FetchOutcomes : SuccessResponse(jobId, outcome)
    \/ \E jobId \in JobIds, outcome \in FetchOutcomes : FailureResponse(jobId, outcome)
    \/ \E jobId \in JobIds : OuterCatch(jobId)
    \/ \E secret \in Secrets : IssueSecret(secret)
    \/ RevokeSecret

Spec == Init /\ [][Next]_vars

\* The submissions, the background tasks and the status queries, with the
\* secret that is on file at startup.
NextQuery ==
    \/ \E org \in Organizations, type \in EntityTypes, url \in CallbackUrls,
             config \in Configs :
          ScanIp(org, type, url, config)
    \/ \E jobId \in JobIds : ReverseDns(jobId)
    \/ \E jobId \in JobIds : PortScan(jobId)
    \/ \E jobId \in JobIds : Reputation(jobId)
    \/ \E jobId \in JobIds : AssociatedDomains(jobId)
    \/ \E jobId \in JobIds, outcome \in FetchOutcomes : SuccessResponse(jobId, outcome)
    \/ \E jobId \in JobIds, outcome \in FetchOutcomes : FailureResponse(jobId, outcome)
    \/ \E jobId \in JobIds : OuterCatch(jobId)
    \/ \E jobId \in QueryIds : GetJobStatus(jobId)

SpecQuery == Init /\ [][NextQuery]_vars

\* Readings of Date.now() and values of Math.random(), as their base-36
\* digits: two that differ in the tenth digit only, and two short ones (0.5
\* is "0.i").
Times == {1, 2}
Randoms == {<<"4", "f", "z", "y", "o", "8", "2", "m", "v", "y">>,
            <<"4", "f", "z", "y", "o", "8", "2", "m", "v", "r">>,
            <<"i">>, <<"9">>}

\* The submissions with the jobIds the template string generates, and the
\* background tasks.
NextIds ==
    \/ \E now \in Times, random \in Randoms :
          \E type \in EntityTypes, url \in CallbackUrls, config \in Configs :
              ScanIpAt(now, random, type, url, config)
    \/ \E jobId \in JobIds : ReverseDns(jobId)
    \/ \E jobId \in JobIds : PortScan(jobId)
    \/ \E jobId \in JobIds : Reputation(jobId)
    \/ \E jobId \in JobIds : AssociatedDomains(jobId)
    \/ \E jobId \in JobIds, outcome \in FetchOutcomes : SuccessResponse(jobId, outcome)
    \/ \E jobId \in JobIds, outcome \in FetchOutcomes : FailureResponse(jobId, outcome)
    \/ \E jobId \in JobIds : OuterCatch(jobId)

SpecIds == Init /\ [][NextIds]_vars

\* The submissions of two organizations, the background tasks, and the
\* secret on file being replaced or removed.
NextTenants ==
    \/ \E org \in Tenants, type \in EntityTypes, url \in CallbackUrls,
             config \in Configs :
          ScanIp(org, type, url, config)
    \/ \E jobId \in JobIds : ReverseDns(jobId)
    \/ \E jobId \in JobIds : PortScan(jobId)
    \/ \E jobId \in JobIds : Reputation(jobId)
    \/ \E jobId \in JobIds : AssociatedDomains(jobId)
    \/ \E jobId \in JobIds, outcome \in FetchOutcomes : SuccessResponse(jobId, outcome)
    \/ \E jobId \in JobIds, outcome \in FetchOutcomes : FailureResponse(jobId, outcome)
    \/ \E jobId \in JobIds : OuterCatch(jobId)
    \/ \E secret \in Secrets : IssueSecret(secret)
    \/ RevokeSecret

SpecTenants == Init /\ [][NextTenants]_vars

\* Submissions that name one of two callback addresses, and the background
\* tasks, with a secret on file from startup on.
ReceiverUrls == {"http://a/cb", "http://b/cb"}

InitUrls == Init /\ envSecret \in Secrets

NextUrls ==
    \/ \E org \in Organizations, type \in EntityTypes, url \in ReceiverUrls,
             config \in Configs :
          ScanIp(org, type, url, config)
    \/ \E jobId \in JobIds : ReverseDns(jobId)
    \/ \E jobId \in JobIds : PortScan(jobId)
    \/ \E jobId \in JobIds : Reputation(jobId)
    \/ \E jobId \in JobIds : AssociatedDomains(jobId)
    \/ \E jobId \in JobIds, outcome \in FetchOutcomes : SuccessResponse(jobId, outcome)
    \/ \E jobId \in JobIds, outcome \in FetchOutcomes : FailureResponse(jobId, outcome)
    \/ \E jobId \in JobIds : OuterCatch(jobId)

SpecUrls == InitUrls /\ [][NextUrls]_vars

\* Submissions with the options omitted, and with either option false and
\* the other true, and the background tasks, with one secret on file.
ScanConfigs ==
    {[includePortScan |-> Undefined, includeReputation |-> Undefined],
     [includePortScan |-> "false", includeReputation |-> "true"],
     [includePortScan |-> "true", includeReputation |-> "false"]}

InitConfig == Init /\ envSecret = <<"s", "1">>

NextConfig ==
    \/ \E org \in Organizations, type \in EntityTypes, url \in CallbackUrls,
             config \in ScanConfigs :
          ScanIp(org, type, url, config)
    \/ \E jobId \in JobIds : ReverseDns(jobId)
    \/ \E jobId \in JobIds : PortScan(jobId)
    \/ \E jobId \in JobIds : Reputation(jobId)
    \/ \E jobId \in JobIds : AssociatedDomains(jobId)
    \/ \E jobId \in JobIds, outcome \in FetchOutcomes : SuccessResponse(jobId, outcome)
    \/ \E jobId \in JobIds, outcome \in FetchOutcomes : FailureResponse(jobId, outcome)
    \/ \E jobId \in JobIds : OuterCatch(jobId)

SpecConfig == InitConfig /\ [][NextConfig]_vars

\* ----------------------------------------------------- callers of hmac.ts
\* Payloads: one, one with its last byte changed, one with a character
\* appended. Secrets: one, the same followed by U+0000, and another.
HmacPayloads == {<<"d", "a", "t", "a">>, <<"d", "a", "t", "e">>,
                 <<"d", "a", "t", "a", "!">>}
HmacSecrets == {<<"k">>, <<"k", NUL>>, <<"w">>}

\* 'sha256=wrong1234567890'
WrongSignature ==
    [chars |-> Chars(<<"s", "h", "a", "2", "5", "6", "=", "w", "r", "o", "n",
                       "g", "1", "2", "3", "4", "5", "6", "7", "8", "9", "0">>)]

\* A signature with the character at place i replaced by another one, with
\* its last character cut off, and with a character appended.
Altered(string, i) ==
    [chars |-> [BufferFrom(string) EXCEPT ![i] = [char |-> "?"]]]

Truncated(string) ==
    [chars |-> SubSeq(BufferFrom(string), 1, Len(BufferFrom(string)) - 1)]

Extended(string) == [chars |-> Append(BufferFrom(string), [char |-> "0"])]

\* Places where a candidate differs first: in the tag, at the first and at
\* the last digit.
AlteredAt == {1, 8, 71}

\* The candidate signatures handed to verifyWebhookSignature by a caller that
\* holds the signature held: that one, ones derived from it, and ones that
\* have nothing to do with it.
Candidates(held) ==
    IF ~isString(held)
    THEN {NotAString, WrongSignature}
    ELSE {held, NotAString, WrongSignature, Truncated(held), Extended(held)}
         \cup {Altered(held, i) : i \in AlteredAt}

InitHmac ==
    /\ envSecret = NoSecret
    /\ jobs = <<>>
    /\ task = <<>>
    /\ posts = <<>>
    /\ marks = <<>>
    /\ response = [code |-> 0, jobId |-> "none"]
    /\ hmacLog = NoCalls
    /\ handler = <<>>
    /\ lookups = <<>>

\* A call of signWebhook.
Sign(payload, secret) ==
    LET signature == signWebhook(payload, secret)
        call == [payload |-> payload, secret |-> secret, signature |-> signature]
    IN  /\ hmacLog' = [first |-> IF hmacLog.first = <<>>
                                 THEN <<call>> ELSE hmacLog.first,
                       held |-> call,
                       last |-> [fn |-> "sign", after |-> hmacLog.last.fn,
                                 payload |-> payload, secret |-> secret,
                                 signature |-> signature, run |-> NoRun]]
        /\ UNCHANGED <<envSecret, jobs, task, posts, marks, response, handler, lookups>>

\* A call of verifyWebhookSignature.
Verify(payload, signature, secret) ==
    /\ hmacLog' = [hmacLog EXCEPT
                      !.last = [fn |-> "verify", after |-> hmacLog.last.fn,
                                payload |-> payload, secret |-> secret,
                                signature |-> signature,
                                run |-> verifyWebhookSignature(payload, signature,
                                                               secret)]]
    /\ UNCHANGED <<envSecret, jobs, task, posts, marks, response, handler, lookups>>

NextHmac ==
    \/ \E payload \in HmacPayloads, secret \in HmacSecrets : Sign(payload, secret)
    \/ \E payload \in HmacPayloads, secret \in HmacSecrets :
          \E signature \in Candidates(hmacLog.held.signature) :
              Verify(payload, signature, secret)

SpecHmac == InitHmac /\ [][NextHmac]_vars

\* ------------------------------------- the Deep IP Scan handler of the SDK
\* A handler that makes its reports of 80 and 95 in the opposite order.
handlerAwaits_lateStart ==
    <<[op |-> "updateProgress", progress |-> 10],
      [op |-> "sleep", progress |-> 0],
      [op |-> "mockReverseDNS", progress |-> 0],
      [op |-> "updateProgress", progress |-> 30],
      [op |-> "updateProgress", progress |-> 30],
      [op |-> "sleep", progress |-> 0],
      [op |-> "mockPortScan", progress |-> 0],
      [op |-> "updateProgress", progress |-> 60],
      [op |-> "updateProgress", progress |-> 60],
      [op |-> "sleep", progress |-> 0],
      [op |-> "mockReputation", progress |-> 0],
      [op |-> "updateProgress", progress |-> 80],
      [op |-> "updateProgress", progress |-> 95],
      [op |-> "sleep", progress |-> 0],
      [op |-> "mockAssociatedDomains", progress |-> 0],
      [op |-> "updateProgress", progress |-> 80]>>

\* The awaits of the handler, in program order: the call each one waits for,
\* and the progress value when the call is job.updateProgress.
handlerAwaits ==
    <<[op |-> "updateProgress", progress |-> 10],
      [op |-> "sleep", progress |-> 0],
      [op |-> "mockReverseDNS", progress |-> 0],
      [op |-> "updateProgress", progress |-> 30],
      [op |-> "updateProgress", progress |-> 30],
      [op |-> "sleep", progress |-> 0],
      [op |-> "mockPortScan", progress |-> 0],
      [op |-> "updateProgress", progress |-> 60],
      [op |-> "updateProgress", progress |-> 60],
      [op |-> "sleep", progress |-> 0],
      [op |-> "mockReputation", progress |-> 0],
      [op |-> "updateProgress", progress |-> 80],
      [op |-> "updateProgress", progress |-> 80],
      [op |-> "sleep", progress |-> 0],
      [op |-> "mockAssociatedDomains", progress |-> 0],
      [op |-> "updateProgress", progress |-> 95]>>

\* Whether the promise an await waits for can be rejected: that of
\* job.updateProgress, which the SDK implements, can; mockReverseDNS and
\* mockAssociatedDomains call a string method of ip and raise when
\* input.entity.value is not a string; sleep and the other mocks cannot.
mayReject(await, ipIsString) ==
    \/ await.op = "updateProgress"
    \/ await.op \in {"mockReverseDNS", "mockAssociatedDomains"} /\ ~ipIsString

mayFulfil(await, ipIsString) ==
    ~(await.op \in {"mockReverseDNS", "mockAssociatedDomains"} /\ ~ipIsString)

\* The reports made so far, with the one the handler makes when it reaches
\* the await.
reported(reports, await) ==
    IF await.op = "updateProgress" THEN Append(reports, await.progress) ELSE reports

InitSdk == InitHmac

\* The SDK calls the handler for job j: it runs to its first await.
HandlerStart(j, ipIsString) ==
    /\ j \notin DOMAIN handler
    /\ handler' = (j :> [at |-> 1, ipIsString |-> ipIsString,
                         reports |-> reported(<<>>, handlerAwaits[1]),
                         outcome |-> "running"]) @@ handler
    /\ UNCHANGED <<envSecret, jobs, task, posts, marks, response, hmacLog, lookups>>

\* The promise the handler of job j waits for settles. Rejected, the catch
\* block logs the error and raises it again. Fulfilled, the handler goes on
\* to its next await, or builds the result and returns it after the last.
HandlerResume(j, rejected) ==
    /\ j \in DOMAIN handler
    /\ handler[j].outcome = "running"
    /\ LET run == handler[j]
           await == handlerAwaits[run.at]
       IN  \/ /\ rejected
              /\ mayReject(await, run.ipIsString)
              /\ handler' = [handler EXCEPT ![j].outcome = "raised"]
           \/ /\ ~rejected
              /\ mayFulfil(await, run.ipIsString)
              /\ handler' =
                     IF run.at = Len(handlerAwaits)
                     THEN [handler EXCEPT ![j].outcome = "returned"]
                     ELSE [handler EXCEPT
                              ![j].at = run.at + 1,
                              ![j].reports =
                                  reported(run.reports, handlerAwaits[run.at + 1])]
    /\ UNCHANGED <<envSecret, jobs, task, posts, marks, response, hmacLog, lookups>>

NextSdk ==
    \/ \E j \in 1..MaxJobs, ipIsString \in BOOLEAN : HandlerStart(j, ipIsString)
    \/ \E j \in 1..MaxJobs, rejected \in BOOLEAN : HandlerResume(j, rejected)

SpecSdk == InitSdk /\ [][NextSdk]_vars

\* ---------------------------------------------------------------- lookupIp
\* An IPInfo record, with the properties lookupIp branches on; Undefined is
\* an absent property. The mock data returned without an API key, the record
\* returned when the call of ipinfo.io failed, and bodies ipinfo.io answers
\* with: a full record, and one without country and org (a bogon address).
MockInfo == [country |-> "US", org |-> "AS15169 Google LLC"]
FallbackInfo == [country |-> "Unknown", org |-> "Unknown"]
UpstreamInfos == {[country |-> "IT", org |-> "AS3269 Telecom Italia"],
                  [country |-> Undefined, org |-> Undefined]}

\* Ways the call of ipinfo.io fails: fetch rejects, the response is not a
\* 2xx, the body of a 2xx response is not JSON.
UpstreamFailures == {"transport", "non2xx", "badJson"}

\* fetchIPInfo letting the error of the upstream call through.
fetchIPInfo_rethrows(upstream, data) ==
    IF upstream = "noKey" THEN [raised |-> FALSE, value |-> MockInfo]
    ELSE IF upstream = "ok" THEN [raised |-> FALSE, value |-> data]
    ELSE [raised |-> TRUE, value |-> FallbackInfo]

\* fetchIPInfo: what it returns, and whether it raises. upstream is "noKey"
\* when there is no API key, "ok" for a 2xx response with the IPInfo body
\* data, and else the way the call failed.
fetchIPInfo(upstream, data) ==
    IF upstream = "noKey" THEN [raised |-> FALSE, value |-> MockInfo]
    ELSE IF upstream = "ok" THEN [raised |-> FALSE, value |-> data]
    ELSE [raised |-> FALSE, value |-> FallbackInfo]

\* The TransformResult built from ipInfo: a location and an organization
\* when ipInfo has them, and the note; an edge per entity.
lookupResult(ipInfo) ==
    LET location == IF ipInfo.country # Undefined
                    THEN <<[type |-> "location", value |-> ipInfo.country]>>
                    ELSE <<>>
        organization == IF ipInfo.org # Undefined
                        THEN <<[type |-> "organization", value |-> ipInfo.org]>>
                        ELSE <<>>
        entities == location \o organization
                    \o <<[type |-> "note", value |-> "IP Info"]>>
    IN  [entities |-> entities,
         edges |-> (IF location # <<>> THEN <<"located_in">> ELSE <<>>)
                   \o (IF organization # <<>> THEN <<"belongs_to">> ELSE <<>>)
                   \o <<"has_info">>]

\* The result of the catch block of lookupIp.
lookupError ==
    [entities |-> <<[type |-> "note", value |-> "IP Lookup Error"]>>,
     edges |-> <<>>]

\* The rest of lookupIp once fetchIPInfo has settled: res.json with the
\* result, or the catch block when it raised.
lookupRespond(run) ==
    IF run.raised
    THEN [code |-> 500, async |-> FALSE, result |-> lookupError]
    ELSE [code |-> 200, async |-> FALSE, result |-> lookupResult(run.value)]

InitLookup == InitHmac

\* POST /lookup-ip: lookupIp runs to its first pending await. An entity that
\* is not an ip is answered from the catch block; without an API key
\* fetchIPInfo returns the mock data and the request is answered; with one
\* the fetch of ipinfo.io is pending.
LookupIp(type, hasKey) ==
    /\ Len(lookups) < MaxLookups
    /\ lookups' = Append(lookups,
          IF type # "ip"
          THEN [type |-> type, pc |-> "done", upstream |-> "none",
                responses |-> <<lookupRespond([raised |-> TRUE,
                                               value |-> FallbackInfo])>>]
          ELSE IF ~hasKey
          THEN [type |-> type, pc |-> "done", upstream |-> "noKey",
                responses |-> <<lookupRespond(fetchIPInfo("noKey", MockInfo))>>]
          ELSE [type |-> type, pc |-> "awaitFetch", upstream |-> "pending",
                responses |-> <<>>])
    /\ UNCHANGED <<envSecret, jobs, task, posts, marks, response, hmacLog,
                   handler>>

\* The fetch of ipinfo.io settles: on a 2xx the body is read next; otherwise
\* fetchIPInfo ends and the request is answered.
UpstreamResponse(i, outcome) ==
    /\ lookups[i].pc = "awaitFetch"
    /\ lookups' = [lookups EXCEPT ![i] =
          IF outcome = "ok"
          THEN [@ EXCEPT !.pc = "awaitJson"]
          ELSE [@ EXCEPT !.pc = "done", !.upstream = outcome,
                         !.responses = Append(@,
                             lookupRespond(fetchIPInfo(outcome, FallbackInfo)))]]
    /\ UNCHANGED <<envSecret, jobs, task, posts, marks, response, hmacLog,
                   handler>>

\* response.json() settles with the parsed body or rejects; fetchIPInfo ends
\* and the request is answered.
UpstreamBody(i, parsed, data) ==
    /\ lookups[i].pc = "awaitJson"
    /\ LET upstream == IF parsed THEN "ok" ELSE "badJson"
       IN  lookups' = [lookups EXCEPT ![i] =
               [@ EXCEPT !.pc = "done", !.upstream = upstream,
                         !.responses = Append(@,
                             lookupRespond(fetchIPInfo(upstream, data)))]]
    /\ UNCHANGED <<envSecret, jobs, task, posts, marks, response, hmacLog,
                   handler>>

NextLookup ==
    \/ \E type \in EntityTypes, hasKey \in BOOLEAN : LookupIp(type, hasKey)
    \/ \E i \in 1..Len(lookups), outcome \in FetchOutcomes :
          UpstreamResponse(i, outcome)
    \/ \E i \in 1..Len(lookups), parsed \in BOOLEAN, data \in UpstreamInfos :
          UpstreamBody(i, parsed, data)

SpecLookup == InitLookup /\ [][NextLookup]_vars

\* The next step of the background task of jobId: a timer fires and a work
\* step returns or raises, a fetch settles, or the .catch handler runs.
TaskStep(jobId) ==
    /\ jobId \in JobIds
    /\ \/ ReverseDns(jobId)
       \/ PortScan(jobId)
       \/ Reputation(jobId)
       \/ AssociatedDomains(jobId)
       \/ \E outcome \in FetchOutcomes : SuccessResponse(jobId, outcome)
       \/ \E outcome \in FetchOutcomes : FailureResponse(jobId, outcome)
       \/ OuterCatch(jobId)

NextFair ==
    \/ \E org \in Organizations, type \in EntityTypes, url \in CallbackUrls,
             config \in Configs :
          ScanIp(org, type, url, config)
    \/ \E jobId \in 1..MaxJobs : TaskStep(jobId)

\* Every sleep, work step and fetch of a task eventually returns or raises,
\* and the event loop eventually runs a pending .catch handler.
SpecFair ==
    /\ Init
    /\ [][NextFair]_vars
    /\ \A jobId \in 1..MaxJobs : WF_vars(TaskStep(jobId))

\* ----------------------------------------------------------------- claims
Terminal == {"completed", "failed"}

\* The POST a step has just made for jobId, if it made one.
Sends(jobId) == Len(posts'[jobId]) > Len(posts[jobId])
Sent(jobId) == posts'[jobId][Len(posts'[jobId])]

\* C1: a failed webhook delivery never changes a job's recorded status: a
\* job recorded completed is recorded completed in every later state,
\* whether sendSuccessWebhook returns or raises.
C1_CompletedStaysCompleted ==
    [][\A j \in JobIds :
          jobs[j].status = "completed" => jobs'[j].status = "completed"]_vars

\* C2: the only status transitions are processing -> completed and
\* processing -> failed; a terminal status is never changed again.
C2_TerminalAbsorbing ==
    [][\A j \in JobIds :
          jobs'[j].status # jobs[j].status =>
              /\ jobs[j].status = "processing"
              /\ jobs'[j].status \in Terminal]_vars

\* C3: at most one HTTP POST is ever made for a job.
C3_AtMostOnePost == \A j \in JobIds : Len(posts[j]) <= 1

\* C4: a job is marked terminal exactly once: a second marking is never
\* written to the registry.
C4_MarkedOnce == \A j \in JobIds : marks[j] <= 1

\* C5: a webhook is signed with the secret on file at the moment it is
\* signed, also when the secret was replaced after the job was accepted.
C5_SignedWithSecretOnFile ==
    [][\A j \in JobIds :
          Sends(j) /\ envSecret # NoSecret =>
              Sent(j).signature = signWebhook(Sent(j).body, envSecret)]_vars

\* C6: once the secret is removed, no POST is sent for a job: no POST is made
\* while no secret is on file.
C6_NoPostAfterRevoke ==
    [][\A j \in JobIds : Sends(j) => envSecret # NoSecret]_vars

\* C7: a job accepted while no secret is configured never sends a POST, and
\* no webhook is ever signed with anything but a configured secret.
C7_NoSecretNoPost ==
    \A j \in JobIds :
        /\ task[j].secret = NoSecret => posts[j] = <<>>
        /\ \A i \in 1..Len(posts[j]) :
              \E secret \in Secrets :
                  posts[j][i].signature = signWebhook(posts[j][i].body, secret)

\* A job accepted without a secret has run to its end.
C7_Witness ==
    \E j \in JobIds :
        /\ task[j].secret = NoSecret
        /\ task[j].pc = "done"

\* C8: with no secret on file the work of the job is still executed, and the
\* final status is completed when the work succeeded and failed when a step
\* raised.
C8_NoSecretWorkStillRuns ==
    \A j \in JobIds :
        task[j].secret = NoSecret /\ task[j].pc = "done" =>
            \/ task[j].work = "ok" /\ jobs[j].status = "completed"
            \/ task[j].work = "raised" /\ jobs[j].status = "failed"

\* The case of C9: a secret was configured at acceptance, every work step
\* returned and the callback answered the success webhook with a 2xx.
C9_Case(j) ==
    /\ task[j].secret # NoSecret
    /\ task[j].work = "ok"
    /\ Len(posts[j]) >= 1
    /\ posts[j][1].response = "ok"

\* C9: with a secret configured, every work step succeeding and the callback
\* accepting, the job ends completed with progress 100 and exactly one POST
\* was sent: status completed, signature verifying against the secret
\* configured when the job was accepted.
C9_SuccessDelivered ==
    \A j \in JobIds :
        C9_Case(j) =>
            /\ task[j].pc = "done"
            /\ jobs[j] = [status |-> "completed", progress |-> 100]
            /\ Len(posts[j]) = 1
            /\ JSONfield(posts[j][1].body, "jobId") = j
            /\ JSONfield(posts[j][1].body, "status") = "completed"
            /\ JSONhas(posts[j][1].body, "result")
            /\ verifyWebhookSignature(posts[j][1].body, posts[j][1].signature,
                                      task[j].secret).value

C9_Witness == \E j \in JobIds : C9_Case(j) /\ task[j].pc = "done"

\* C10: when a work step raises, the job is recorded failed and the payload
\* sent for it has status failed and an error with code SCAN_ERROR and the
\* message of the error, or 'Unknown error' when the raised value is not an
\* Error.
C10_FailureDelivered ==
    \A j \in JobIds :
        task[j].work = "raised" =>
            /\ jobs[j].status = "failed"
            /\ Len(posts[j]) = 1
            /\ JSONfield(posts[j][1].body, "jobId") = j
            /\ JSONfield(posts[j][1].body, "status") = "failed"
            /\ JSONhas(posts[j][1].body, "error")
            /\ JSONfield(posts[j][1].body, "error").code = "SCAN_ERROR"
            /\ JSONfield(posts[j][1].body, "error").message =
                   (IF task[j].caught[1].isError
                    THEN task[j].caught[1].message
                    ELSE "Unknown error")

\* A step raised a value that is not an Error, and the failure webhook of the
\* job was accepted.
C10_Witness ==
    \E j \in JobIds :
        /\ task[j].work = "raised"
        /\ ~task[j].caught[1].isError
        /\ task[j].pc = "done"
        /\ posts[j][1].response = "ok"

\* A step of the background task of jobId, or its acceptance.
Acts(jobId) == jobId \notin JobIds \/ task'[jobId] # task[jobId]

\* The record of jobId before a step, then the records the step wrote to it.
Recorded(jobId) ==
    (IF jobId \in JobIds THEN <<jobs[jobId]>> ELSE <<>>) \o task'[jobId].wrote

\* C11: every POST carries the signature of exactly the body it transmits,
\* under the secret handed to sendWebhook: the payload is serialized once and
\* the same string is signed and sent.
C11_SignatureOverSentBody ==
    \A j \in JobIds :
        \A i \in 1..Len(posts[j]) :
            posts[j][i].signature = signWebhook(posts[j][i].body, task[j].secret)

\* A job has sent both a success and a failure webhook.
C11_Witness ==
    \E j \in JobIds :
        /\ Len(posts[j]) = 2
        /\ JSONfield(posts[j][1].body, "status") = "completed"
        /\ JSONfield(posts[j][2].body, "status") = "failed"

\* C12: while a job is processing, the progress values written to its record
\* are non-decreasing, and the first one, at creation, is 0.
C12_ProgressNonDecreasing ==
    [][\A j \in JobIds' :
          Acts(j) =>
              /\ j \notin JobIds =>
                     Recorded(j)[1] = [status |-> "processing", progress |-> 0]
              /\ \A i \in 1..(Len(Recorded(j)) - 1) :
                     /\ Recorded(j)[i].status = "processing"
                     /\ Recorded(j)[i + 1].status = "processing"
                     => Recorded(j)[i].progress <= Recorded(j)[i + 1].progress]_vars

\* A job has passed the checkpoints 0, 10, 30, 60 and 80.
C12_Witness ==
    \E j \in JobIds :
        /\ task[j].pc = "sleep4"
        /\ jobs[j] = [status |-> "processing", progress |-> 80]

\* C13: once a job is terminal, no later step writes its record.
C13_NoWriteAfterTerminal ==
    [][\A j \in JobIds :
          jobs[j].status \in Terminal /\ task'[j] # task[j] =>
              task'[j].wrote = <<>>]_vars

\* C14: when scanIp sends the acceptance response, the jobId it returns is in
\* the registry with status processing, its task has not ended and no webhook
\* has been sent for it.
C14_AcceptedBeforeFinished ==
    [][\A j \in JobIds' \ JobIds :
          /\ response'.code = 200
          /\ response'.jobId = IdString(j)
          /\ jobs'[j].status = "processing"
          /\ task'[j].pc # "done"
          /\ posts'[j] = <<>>]_vars

\* The acceptance response of a job has been sent, with and without a secret
\* on file: the job is still where scanIp left it.
C14_Witness ==
    /\ \E j \in JobIds : task[j].pc = "sleep1" /\ jobs[j].progress = 10
    /\ \E j \in JobIds : task[j].pc = "rejected" /\ task[j].work = "notrun"
    /\ response.code = 200

\* C15: a submission whose entity type is not 'ip' is answered with an error
\* and has no other effect: the registry, the tasks and the webhooks are as
\* before, and no job ever exists for such a submission.
C15_RejectedHasNoEffect ==
    [][/\ response.code # 500 /\ response'.code = 500 =>
              UNCHANGED <<envSecret, jobs, task, posts, marks>>
       /\ \A j \in JobIds' : task'[j].type = "ip"]_vars

\* A submission was rejected while a job was running.
C15_Witness ==
    /\ response.code = 500
    /\ \E j \in JobIds : task[j].pc = "sleep2"

\* The task of jobId has ended after an error: a missing secret, a raising
\* work step, a failed success webhook or a failed failure webhook.
ErrorEnded(jobId) ==
    /\ task[jobId].pc = "done"
    /\ \/ task[jobId].work = "notrun"
       \/ task[jobId].caught # <<>>
       \/ \E i \in 1..Len(posts[jobId]) : posts[jobId][i].response = "failed"

\* C16: no error of the background processing reaches the submitter: a step
\* of a task leaves the response already sent as it is, and every task that
\* ended after an error left its job recorded as failed.
C16_ErrorsEndFailed ==
    [][/\ \A j \in JobIds' : ErrorEnded(j)' => jobs'[j].status = "failed"
       /\ (\E j \in JobIds : task'[j] # task[j]) =>
              /\ response'.code = response.code
              /\ response.code = 200 => response'.jobId = response.jobId]_vars

\* Both webhooks of a job failed and its task has ended.
C16_Witness ==
    \E j \in JobIds :
        /\ ErrorEnded(j)
        /\ Len(posts[j]) = 2
        /\ posts[j][2].response = "failed"

\* C17: under fairness every accepted job eventually has a terminal status
\* and its background task has ended.
C17_EveryJobTerminates ==
    \A j \in 1..MaxJobs :
        (j \in JobIds) ~>
            (j \in JobIds /\ task[j].pc = "done" /\ jobs[j].status \in Terminal)

\* Every job the model accepts has ended, one completed and one failed.
C17_Witness ==
    /\ Cardinality(JobIds) = MaxJobs
    /\ \A j \in JobIds : task[j].pc = "done"
    /\ \E j \in JobIds : jobs[j].status = "completed"
    /\ \E j \in JobIds : jobs[j].status = "failed"

\* Whether two responses are the same response.
SameResponse(a, b) == DOMAIN a = DOMAIN b /\ a = b

\* Whether a response is one of getJobStatus.
IsStatusReply(r) == "job" \in DOMAIN r \/ "error" \in DOMAIN r

\* A step that answers a status query.
QueryStep == IsStatusReply(response') /\ ~SameResponse(response, response')

C19_RecordsNeverRemoved ==
    [][/\ \A j \in DOMAIN task : j \in JobIds'
       /\ QueryStep /\ (\E j \in DOMAIN task : response'.jobId = IdString(j))
              => response'.code = 200]_vars

\* The status of a finished job was queried and answered with its record.
C19_Witness ==
    /\ IsStatusReply(response)
    /\ response.code = 200
    /\ \E j \in JobIds : response.jobId = IdString(j) /\ task[j].pc = "done"
    /\ response.job.status \in Terminal

\* C20: getJobStatus changes nothing; it answers 404 exactly when the queried
\* jobId has no record, and otherwise 200 with the record as it is.
C20_StatusQueryReadOnly ==
    [][QueryStep =>
          /\ UNCHANGED <<envSecret, jobs, task, posts, marks>>
          /\ response'.code = 404 <=>
                 ~\E j \in JobIds : response'.jobId = IdString(j)
          /\ response'.code # 404 =>
                 /\ response'.code = 200
                 /\ \E j \in JobIds :
                        response'.jobId = IdString(j) /\ response'.job = jobs[j]]_vars

\* A query for an id without a record was answered 404 while jobs exist.
C20_Witness ==
    /\ IsStatusReply(response)
    /\ response.code = 404
    /\ ~\E j \in JobIds : response.jobId = IdString(j)
    /\ JobIds # {}

\* C21: no two accepted submissions get the same jobId: no step stores the
\* creation record, processing with progress 0, under a jobId that already
\* has a record.
C21_JobIdsNeverReused ==
    [][\A j \in JobIds :
          task'[j] # task[j] =>
              \/ task'[j].wrote = <<>>
              \/ task'[j].wrote[1] # processing(0)]_vars

\* C22: the webhooks of two jobs submitted by different organizations are
\* signed with different secrets, so the signature of a POST of one does not
\* verify under the secret that signed the POSTs of the other.
C22_TenantsSignDifferently ==
    \A j, k \in JobIds :
        /\ task[j].organizationId # task[k].organizationId
        /\ posts[j] # <<>>
        /\ posts[k] # <<>>
        => /\ task[j].secret # task[k].secret
           /\ ~verifyWebhookSignature(posts[j][1].body, posts[j][1].signature,
                                      task[k].secret).value

\* The latest call was verifyWebhookSignature, for the signature that the
\* latest call of signWebhook returned.
VerifiesHeld ==
    /\ hmacLog.last.fn = "verify"
    /\ isString(hmacLog.held.signature)
    /\ hmacLog.last.signature = hmacLog.held.signature

\* The buffer the latest call of verifyWebhookSignature expected.
ExpectedBuffer ==
    BufferFrom(signWebhook(hmacLog.last.payload, hmacLog.last.secret))

\* C23: for every payload P and secret S, verifyWebhookSignature(P,
\* signWebhook(P, S), S) returns true.
C23_OwnSignatureVerifies ==
    /\ VerifiesHeld
    /\ hmacLog.last.payload = hmacLog.held.payload
    /\ hmacLog.last.secret = hmacLog.held.secret
    => ~hmacLog.last.run.raised /\ hmacLog.last.run.value

\* A signature made with a secret that ends in U+0000 was verified with the
\* payload and the secret it was made from.
C23_Witness ==
    /\ VerifiesHeld
    /\ hmacLog.last.payload = hmacLog.held.payload
    /\ hmacLog.last.secret = hmacLog.held.secret
    /\ hmacLog.last.secret = <<"k", NUL>>
    /\ hmacLog.last.run.value

\* C24, as stated: for every payload P and every two different secrets S1 and
\* S2, verifyWebhookSignature(P, signWebhook(P, S1), S2) returns false.
C24_Original ==
    /\ VerifiesHeld
    /\ hmacLog.last.payload = hmacLog.held.payload
    /\ hmacLog.last.secret # hmacLog.held.secret
    => ~hmacLog.last.run.value

\* C24: for every payload P and every two secrets S1 and S2 whose key blocks
\* differ, that is, which still differ once both are padded with U+0000 to
\* the block size, verifyWebhookSignature(P, signWebhook(P, S1), S2) returns
\* false.
C24_OtherKeyRejected ==
    /\ VerifiesHeld
    /\ hmacLog.last.payload = hmacLog.held.payload
    /\ hmacKey(hmacLog.last.secret) # hmacKey(hmacLog.held.secret)
    => ~hmacLog.last.run.raised /\ ~hmacLog.last.run.value

\* A signature was verified under a secret with another key block, the
\* comparison of the two buffers having been made.
C24_Witness ==
    /\ VerifiesHeld
    /\ hmacLog.last.payload = hmacLog.held.payload
    /\ hmacKey(hmacLog.last.secret) # hmacKey(hmacLog.held.secret)
    /\ hmacLog.last.run.compared > 0
    /\ ~hmacLog.last.run.value

\* C25: for every payload P, secret S and payload P' that differs from P,
\* verifyWebhookSignature(P', signWebhook(P, S), S) returns false.
C25_OtherPayloadRejected ==
    /\ VerifiesHeld
    /\ hmacLog.last.payload # hmacLog.held.payload
    /\ hmacLog.last.secret = hmacLog.held.secret
    => ~hmacLog.last.run.raised /\ ~hmacLog.last.run.value

\* The signature of a payload was verified for that payload with a character
\* appended.
C25_Witness ==
    /\ VerifiesHeld
    /\ hmacLog.held.payload = <<"d", "a", "t", "a">>
    /\ hmacLog.last.payload = <<"d", "a", "t", "a", "!">>
    /\ hmacLog.last.secret = hmacLog.held.secret
    /\ ~hmacLog.last.run.value

isHexDigit(c) == "nibble" \in DOMAIN c

C28_VerifyNeverRaises ==
    hmacLog.last.fn = "verify" =>
        LET run == hmacLog.last.run
            candidate == hmacLog.last.signature
        IN  /\ ~run.raised
            /\ ~isString(candidate) => ~run.value /\ run.compared = 0
            /\ isString(candidate) =>
                   /\ run.trace[3] = "length"
                   /\ Len(BufferFrom(candidate)) # Len(ExpectedBuffer) =>
                          /\ ~run.value
                          /\ Len(run.trace) = 3
                          /\ run.compared = 0
                   /\ Len(BufferFrom(candidate)) = Len(ExpectedBuffer) =>
                          /\ run.trace[4] = "timingSafeEqual"
                          /\ BufferFrom(candidate) # ExpectedBuffer => ~run.value

\* A candidate that is not a string was verified after candidates of another
\* length were.
C28_Witness ==
    /\ hmacLog.last.fn = "verify"
    /\ hmacLog.last.after = "verify"
    /\ ~isString(hmacLog.last.signature)
    /\ ~hmacLog.last.run.value

\* C30: for a candidate of the expected length, verifyWebhookSignature takes
\* the same steps and compares every byte pair, wherever the first differing
\* byte is; only a candidate of another length is answered earlier.
C30_NoTimingOracle ==
    /\ hmacLog.last.fn = "verify"
    /\ isString(hmacLog.last.signature)
    /\ Len(BufferFrom(hmacLog.last.signature)) = Len(ExpectedBuffer)
    => /\ hmacLog.last.run.compared = Len(ExpectedBuffer)
       /\ hmacLog.last.run.trace =
              <<"Buffer.from", "Buffer.from", "length", "timingSafeEqual">>

\* A candidate of the expected length that differs from the expected
\* signature in its first byte was verified.
C30_Witness ==
    /\ hmacLog.last.fn = "verify"
    /\ isString(hmacLog.last.signature)
    /\ Len(BufferFrom(hmacLog.last.signature)) = Len(ExpectedBuffer)
    /\ BufferFrom(hmacLog.last.signature)[1] # ExpectedBuffer[1]
    /\ BufferFrom(hmacLog.last.signature)[71] = ExpectedBuffer[71]
    /\ hmacLog.last.run.compared = 71

\* The progress values the handler reports when every await is fulfilled.
AllReports == <<10, 30, 30, 60, 60, 80, 80, 95>>

PostStatus(post) == JSONfield(post.body, "status")

\* C31: the registry is updated before the notification goes out: when a POST
\* with a status is sent for a job, the record of the job has that status.
C31_RecordedBeforeSent ==
    [][\A j \in JobIds :
          Sends(j) => jobs'[j].status = PostStatus(Sent(j))]_vars

\* A job has sent its success webhook and then its failure webhook.
C31_Witness ==
    \E j \in JobIds :
        /\ Len(posts[j]) = 2
        /\ PostStatus(posts[j][2]) = "failed"
        /\ posts[j][2].response = "pending"
        /\ jobs[j].status = "failed"

\* C32: the POSTs sent for a job never include both a payload with status
\* completed and a payload with status failed.
C32_NoContradictoryOutcomes ==
    \A j \in JobIds :
        ~\E i, k \in 1..Len(posts[j]) :
            /\ PostStatus(posts[j][i]) = "completed"
            /\ PostStatus(posts[j][k]) = "failed"

\* C33: at most two POSTs are made for a job; a second one is a failure
\* payload sent after the success send raised; after a failure send that
\* raised no further POST is made and the job is recorded as failed.
C33_AtMostTwoPosts ==
    \A j \in JobIds :
        /\ Len(posts[j]) <= 2
        /\ Len(posts[j]) = 2 =>
               /\ PostStatus(posts[j][1]) = "completed"
               /\ posts[j][1].response = "failed"
               /\ PostStatus(posts[j][2]) = "failed"
        /\ \A i \in 1..Len(posts[j]) :
               PostStatus(posts[j][i]) = "failed" /\ posts[j][i].response = "failed"
               => i = Len(posts[j]) /\ jobs[j].status = "failed"

\* The success send and then the failure send of a job raised, and the
\* .catch handler has run.
C33_Witness ==
    \E j \in JobIds :
        /\ Len(posts[j]) = 2
        /\ posts[j][1].response = "failed"
        /\ posts[j][2].response = "failed"
        /\ task[j].pc = "done"
        /\ marks[j] = 3

\* The records the code writes.
ConsistentRecords ==
    {[status |-> "processing", progress |-> p] : p \in {0, 10, 30, 60, 80, 90}}
    \cup {[status |-> "completed", progress |-> 100],
          [status |-> "failed", progress |-> 0]}

\* C34: every job record, and every record a step writes, is processing with
\* progress 0, 10, 30, 60, 80 or 90, completed with progress 100, or failed
\* with progress 0.
C34_RecordsConsistent ==
    \A j \in JobIds :
        /\ jobs[j] \in ConsistentRecords
        /\ jobs[j].progress \in 0..100
        /\ \A i \in 1..Len(task[j].wrote) : task[j].wrote[i] \in ConsistentRecords
        /\ task[j].wrote # <<>> => jobs[j] = task[j].wrote[Len(task[j].wrote)]

\* One job has just written progress 90 and completed, another is at
\* progress 0, its task having stopped for the missing secret.
C34_Witness ==
    /\ \E j \in JobIds : task[j].wrote = <<processing(90), completedRecord>>
    /\ \E j \in JobIds : jobs[j] = processing(0)

\* C36: a payload with status completed carries a result and no error, and a
\* payload with status failed carries an error with code and message and no
\* result.
C36_PayloadShapes ==
    \A j \in JobIds :
        \A i \in 1..Len(posts[j]) :
            LET body == posts[j][i].body
            IN  /\ JSONhas(body, "jobId")
                /\ PostStatus(posts[j][i]) \in {"completed", "failed"}
                /\ PostStatus(posts[j][i]) = "completed" =>
                       JSONhas(body, "result") /\ ~JSONhas(body, "error")
                /\ PostStatus(posts[j][i]) = "failed" =>
                       /\ JSONhas(body, "error") /\ ~JSONhas(body, "result")
                       /\ DOMAIN JSONfield(body, "error") = {"code", "message"}

\* Payloads of both shapes have been sent.
C36_Witness ==
    /\ \E j \in JobIds : \E i \in 1..Len(posts[j]) :
           PostStatus(posts[j][i]) = "completed"
    /\ \E j \in JobIds :
           /\ Len(posts[j]) = 1
           /\ PostStatus(posts[j][1]) = "failed"

\* The pending POST of a job is answered in this step.
Answered(jobId) ==
    /\ posts[jobId] # <<>>
    /\ posts[jobId][Len(posts[jobId])].response = "pending"
    /\ posts'[jobId][Len(posts[jobId])].response # "pending"

\* C37: a call of sendWebhook makes one request and does not retry: on a 2xx
\* it returns and the task ends without a further POST; on a non-2xx response
\* or a transport error it raises, so that the catch block or the .catch
\* handler is entered, and a POST that follows is not the same request again.
C37_OneRequestPerCall ==
    [][\A j \in JobIds :
          LET n == Len(posts[j])
          IN  /\ Len(posts'[j]) \in {n, n + 1}
              /\ SubSeq(posts'[j], 1, n - 1) = SubSeq(posts[j], 1, n - 1)
              /\ Answered(j) =>
                    /\ posts'[j][n].response = "ok" =>
                           task'[j].pc = "done" /\ Len(posts'[j]) = n
                    /\ posts'[j][n].response = "failed" =>
                           /\ task'[j].pc \in {"awaitFailure", "rejected"}
                           /\ task'[j].pc = "awaitFailure" =>
                                  /\ task'[j].caught # <<>>
                                  /\ Len(posts'[j]) = n + 1
                                  /\ posts'[j][n + 1].body # posts[j][n].body
                           /\ task'[j].pc = "rejected" => Len(posts'[j]) = n]_vars

\* One job ended after a send answered with a 2xx, the other is in its catch
\* block after a success send answered with a non-2xx response.
C37_Witness ==
    \E j, k \in JobIds :
        /\ task[j].pc = "done"
        /\ posts[j] # <<>>
        /\ posts[j][Len(posts[j])].response = "ok"
        /\ task[k].pc = "awaitFailure"
        /\ Len(posts[k]) = 2
        /\ posts[k][1].response = "failed"
        /\ task[k].caught = <<fetchError("non2xx")>>

\* C35: deliveries are not cross-wired between concurrent jobs: the
\* submitter of a job is answered with the id of that job, the callback
\* address of a job is the one of its submission throughout, and every POST
\* of a job goes to that address and carries the id of the job.
C35_NoCrossWiring ==
    [][/\ \A j \in DOMAIN task' \ DOMAIN task :
             response' = [code |-> 200, jobId |-> IdString(j)]
       /\ \A j \in DOMAIN task :
             task'[j].callbackUrl = task[j].callbackUrl
       /\ \A j \in DOMAIN task' :
             \A i \in 1..Len(posts'[j]) :
                 /\ posts'[j][i].url = task'[j].callbackUrl
                 /\ JSONfield(posts'[j][i].body, "jobId") = j]_vars

\* Two jobs submitted with different callback addresses have POSTs in flight
\* at the same time, the job submitted first having sent its POST last.
C35_Witness ==
    \E j, k \in JobIds :
        /\ j < k
        /\ task[j].callbackUrl # task[k].callbackUrl
        /\ Len(posts[k]) = 1 /\ posts[k][1].response = "pending"
        /\ Len(posts[j]) = 2 /\ posts[j][2].response = "pending"

\* Step 2 or step 3 of a job ends in this step: the task leaves position pc.
StepEnds(jobId, pc) == task[jobId].pc = pc /\ task'[jobId].pc # pc

\* C38: the port scan (the reputation check) runs unless its option is false:
\* the step raises only when it runs, and the result has its section exactly
\* when the option is not false, an omitted option counting as true.
\* Whatever the options, a step that does not raise records progress 60
\* (80), and a job whose steps all return is recorded completed with
\* progress 100 when its success webhook is sent.
C38_OptionsOnlySkipScans ==
    [][\A j \in DOMAIN task :
          LET config == task[j].config
          IN  /\ StepEnds(j, "sleep2") =>
                    \/ task'[j].pc = "sleep3" /\ jobs'[j] = processing(60)
                    \/ /\ task'[j].pc = "awaitFailure"
                       /\ config.includePortScan # "false"
                       /\ jobs'[j] = failedRecord
              /\ StepEnds(j, "sleep3") =>
                    \/ task'[j].pc = "sleep4" /\ jobs'[j] = processing(80)
                    \/ /\ task'[j].pc = "awaitFailure"
                       /\ config.includeReputation # "false"
                       /\ jobs'[j] = failedRecord
              /\ StepEnds(j, "sleep4") /\ task'[j].pc = "awaitSuccess" =>
                    /\ jobs'[j] = [status |-> "completed", progress |-> 100]
                    /\ JSONfield(Sent(j).body, "result").portScan
                           = (config.includePortScan \in {Undefined, "true"})
                    /\ JSONfield(Sent(j).body, "result").reputation
                           = (config.includeReputation \in {Undefined, "true"})]_vars

\* Of two jobs completed side by side, one was submitted without options and
\* its result has both sections, the other with includePortScan false and
\* its result has no port scan section.
C38_Witness ==
    \E j, k \in JobIds :
        /\ task[j].config.includePortScan = Undefined
        /\ task[k].config.includePortScan = "false"
        /\ task[j].pc = "awaitSuccess" /\ task[k].pc = "awaitSuccess"
        /\ jobs[j] = completedRecord /\ jobs[k] = completedRecord
        /\ JSONfield(posts[j][1].body, "result").portScan
        /\ ~JSONfield(posts[k][1].body, "result").portScan

====
